---- MODULE Spec2Model ----
(***************************************************************************)
(* Voice matching: the Next.js voice routes (src/src/app/api/voice), the   *)
(* frontend helpers (src/src/utils/voiceMatching.ts, src/src/types/        *)
(* voice.ts) and the Python service they forward to.  The service's code   *)
(* (voice_matching_service.py) is not part of the sources; its operations  *)
(* are written from the specification and the README and are marked as     *)
(* such where they are defined.                                            *)
(*                                                                         *)
(* Numbers.  A similarity is a cosine, dot(a,b) / (||a|| * ||b||), which   *)
(* needs a square root.  A real x is carried as the exact fraction of      *)
(* sgn(x) * x^2, in lowest terms.  x |-> sgn(x) * x^2 is a strictly        *)
(* increasing bijection of the reals, so every comparison made on the      *)
(* carried values is the comparison of the reals themselves: 0.7 is 49/100,*)
(* 1.0 is 1/1, -1.0 is -1/1.  The fraction 0/0 is what a division of zero  *)
(* by zero gives (NaN): it compares false with everything.                 *)
(***************************************************************************)
EXTENDS Integers, Sequences, FiniteSets, TLC

VARIABLES request, response, backend, models, loads, pending, job,
          ar, vr, ps

vars == <<request, response, backend, models, loads, pending, job,
          ar, vr, ps>>

\* the browser side: an AudioRecorder, the VoiceRecorder component, the
\* PlaceSearch component
uiVars == <<ar, vr, ps>>

\* the service's own state: the models it has loaded, how often each was
\* loaded, and the requests it has in hand
serviceVars == <<models, loads, pending>>

\* one exchange through the routes: the request, its answer, the calls made
apiVars == <<request, response, backend>>

(* ------------------------------ bounds -------------------------------- *)

\* largest number of rows of the submissions table
MaxColl == 3

\* largest top_n a request carries explicitly
MaxTopN == 2

\* calls of AudioRecorder.startRecording on one recorder
MaxRecordings == 2

\* the largest maxDuration, in seconds
MaxDuration == 2

\* characters of a search query, and calls of setSearchQuery
MaxQuery == 2

MaxChanges == 3

\* clients with a request in hand at the same time
NumClients == 2

\* the inference timeout, in steps of inference
InferenceTimeout == 2

(* --------------------------- optional values --------------------------- *)

\* null / undefined, and a present value v
None == <<>>
Some(v) == <<v>>

\* JavaScript truthiness of an optional array: null and undefined are falsy,
\* every array (the empty one included) is truthy
Truthy(o) == o # None

(* ------------------------------ numbers -------------------------------- *)

Abs(x) == IF x < 0 THEN -x ELSE x

Sgn(x) == IF x < 0 THEN -1 ELSE IF x = 0 THEN 0 ELSE 1

Min(a, b) == IF a <= b THEN a ELSE b

RECURSIVE GCD(_, _)
GCD(a, b) == IF b = 0 THEN a ELSE GCD(b, a % b)

NaN == [n |-> 0, d |-> 0]

IsNaN(x) == x.d = 0

\* the fraction n/d (d >= 0) in lowest terms
Frac(n, d) ==
  IF d = 0 THEN NaN
  ELSE LET g == GCD(Abs(n), d) IN [n |-> n \div g, d |-> d \div g]

\* the decimal p/q (q > 0) as a carried value
Real(p, q) == Frac(Sgn(p) * p * p, q * q)

Geq(x, y) == ~IsNaN(x) /\ ~IsNaN(y) /\ x.n * y.d >= y.n * x.d

Gt(x, y) == ~IsNaN(x) /\ ~IsNaN(y) /\ x.n * y.d > y.n * x.d

(* --------------------- frontend: src/src/types/voice.ts ---------------- *)

\* the list with one of the Chinese codes forgotten
ASIAN_LANGUAGES_WithoutCmn == <<"zh", "ja", "ko", "th", "vi", "yue">>

ASIAN_LANGUAGES == <<"zh", "ja", "ko", "th", "vi", "yue", "cmn">>

SUPPORTED_LANGUAGES ==
  ASIAN_LANGUAGES \o <<"en", "es", "fr", "de", "it", "pt", "ru", "ar", "hi">>

Range(s) == {s[i] : i \in DOMAIN s}

(* ----------------- frontend: src/src/utils/voiceMatching.ts ------------ *)

DefaultThreshold == Real(7, 10)

\* the comparison made strict
isVoiceMatch_Strict(similarity, thresholdArg) ==
  LET threshold == IF thresholdArg = None THEN DefaultThreshold
                   ELSE thresholdArg[1]
  IN  Gt(similarity, threshold)

\* isVoiceMatch(similarity, threshold = 0.7)
isVoiceMatch(similarity, thresholdArg) ==
  LET threshold == IF thresholdArg = None THEN DefaultThreshold
                   ELSE thresholdArg[1]
  IN  Geq(similarity, threshold)

(* ------------------- the Python service (from the spec) ---------------- *)

\* 4.3 Model Router: the partition table
AsianPartition == {"zh", "cmn", "yue", "ja", "ko", "th", "vi"}

route(language) ==
  IF language \in AsianPartition THEN "AsianProfile" ELSE "InternationalProfile"

RECURSIVE Dot(_, _)
Dot(a, b) ==
  IF a = <<>> \/ b = <<>> THEN 0
  ELSE Head(a) * Head(b) + Dot(Tail(a), Tail(b))

\* the dot product left unnormalised
cosine_Unnormalised(a, b) ==
  LET d == Dot(a, b)
  IN  Frac(Sgn(d) * d * d, 1)

\* the dot product divided by the first vector's norm twice
cosine_FirstNormOnly(a, b) ==
  LET d == Dot(a, b)
  IN  Frac(Sgn(d) * d * d, Dot(a, a) * Dot(a, a))

\* 4.5 compare: dot(a,b) / (||a|| * ||b||), as a carried value
cosine(a, b) ==
  LET d == Dot(a, b)
  IN  Frac(Sgn(d) * d * d, Dot(a, a) * Dot(b, b))

ErrorResponse(status, error) == [status |-> status, body |-> [error |-> error]]

\* POST /compare-voices
\* is_match: README "is_match: boolean // > 0.7"
compare_voices(embedding1, embedding2) ==
  IF Len(embedding1) # Len(embedding2)
  THEN ErrorResponse(400, "DimensionMismatchError")
  ELSE LET similarity == cosine(embedding1, embedding2)
       IN  [status |-> 200,
            body |-> [success |-> TRUE,
                      similarity |-> similarity,
                      is_match |-> Gt(similarity, DefaultThreshold)]]

\* a stored record the query can be compared with
Comparable(query, r) ==
  /\ r.embedding # None
  /\ Len(r.embedding[1]) = Len(query)

MatchResult(query, r) ==
  LET similarity == cosine(query, r.embedding[1])
  IN  [id |-> r.id,
       similarity |-> similarity,
       is_match |-> Gt(similarity, DefaultThreshold),
       metadata |-> r.metadata]

\* m goes after every result that is at least as similar: a stable
\* descending order
RECURSIVE InsertDesc(_, _)
InsertDesc(s, m) ==
  IF s = <<>> THEN <<m>>
  ELSE IF Geq(Head(s).similarity, m.similarity)
       THEN <<Head(s)>> \o InsertDesc(Tail(s), m)
       ELSE <<m>> \o s

RECURSIVE SortDesc(_)
SortDesc(s) ==
  IF s = <<>> THEN <<>>
  ELSE InsertDesc(SortDesc(SubSeq(s, 1, Len(s) - 1)), s[Len(s)])

RECURSIVE Results(_, _)
Results(query, stored) ==
  IF stored = <<>> THEN <<>>
  ELSE IF Comparable(query, Head(stored))
       THEN <<MatchResult(query, Head(stored))>> \o Results(query, Tail(stored))
       ELSE Results(query, Tail(stored))

\* 7 the identifiers of the records rank leaves out, in collection order
RECURSIVE Skipped(_, _)
Skipped(query, stored) ==
  IF stored = <<>> THEN <<>>
  ELSE IF Comparable(query, Head(stored))
       THEN Skipped(query, Tail(stored))
       ELSE <<Head(stored).id>> \o Skipped(query, Tail(stored))

\* 4.5 rank(query, collection, top_n), top_n >= 1
rank(query, stored, top_n) ==
  LET sorted == SortDesc(Results(query, stored))
  IN  SubSeq(sorted, 1, Min(top_n, Len(sorted)))

\* best_match taken from the end of the ranking
find_match_BestIsLast(user_embedding, stored_embeddings, top_n) ==
  IF top_n <= 0 THEN ErrorResponse(400, "InvalidArgumentError")
  ELSE LET top_matches == rank(user_embedding, stored_embeddings, top_n)
       IN  [status |-> 200,
            body |-> [success |-> TRUE,
                      best_match |-> IF top_matches = <<>> THEN None
                                     ELSE Some(top_matches[Len(top_matches)]),
                      top_matches |-> top_matches,
                      skipped |-> Skipped(user_embedding, stored_embeddings)]]

\* POST /find-match
find_match(user_embedding, stored_embeddings, top_n) ==
  IF top_n <= 0 THEN ErrorResponse(400, "InvalidArgumentError")
  ELSE LET top_matches == rank(user_embedding, stored_embeddings, top_n)
       IN  [status |-> 200,
            body |-> [success |-> TRUE,
                      best_match |-> IF top_matches = <<>> THEN None
                                     ELSE Some(top_matches[1]),
                      top_matches |-> top_matches,
                      skipped |-> Skipped(user_embedding, stored_embeddings)]]

(* --------------------------- request inputs ---------------------------- *)

\* language codes: the supported ones, an unrecognized one, a malformed one
Codes == Range(SUPPORTED_LANGUAGES) \cup {"xx", ""}

\* embeddings offered to compare: three components, two components (a
\* different model's length), the zero vector
CompareVectors ==
  { <<1, 0, 0>>, <<0, 1, 0>>, <<-1, 0, 0>>, <<1, 1, 0>>, <<5, 5, 1>>,
    <<0, 0, 0>>, <<1, 0>>, <<3, 4>>, <<1, 0, 0, 0>>, <<7, 7, 1, 1>> }

\* query embeddings offered to find-match
QueryVectors == { <<1, 0>>, <<1, 1>>, <<3, 4>> }

\* voice_embedding column values: valid embeddings (<<1,0>> and <<2,0>> are
\* equally similar to every query), one of another length, and NULL
StoredValues ==
  { Some(<<1, 0>>), Some(<<2, 0>>), Some(<<0, 1>>), Some(<<-1, 0>>),
    Some(<<1, 0, 0>>), None }

Ids == <<"s1", "s2", "s3", "s4", "s5">>

Names == <<"ana", "bo", "chen", "dee", "eli">>

Languages == <<"zh", "en", "ja", "fr", "xx">>

\* the submissions table holding the column values vs, in table order
Table(vs) ==
  [i \in DOMAIN vs |->
     [id |-> Ids[i],
      voice_embedding |-> vs[i],
      voice_language |-> Languages[i],
      user_name |-> Names[i],
      location_name |-> "loc"]]

RECURSIVE SeqsUpTo(_, _)
SeqsUpTo(S, n) ==
  IF n = 0 THEN {<<>>}
  ELSE LET shorter == SeqsUpTo(S, n - 1)
       IN  shorter \cup {Append(s, x) : s \in {t \in shorter : Len(t) = n - 1}, x \in S}

Tables == {Table(vs) : vs \in SeqsUpTo(StoredValues, MaxColl)}

TopNs == {None} \cup {Some(n) : n \in -1 .. MaxTopN}

CompareBodies ==
  {None} \cup
  { Some([embedding1 |-> e1, embedding2 |-> e2]) :
      e1 \in {None} \cup {Some(v) : v \in CompareVectors},
      e2 \in {None} \cup {Some(v) : v \in CompareVectors} }

FindMatchBodies ==
  {None} \cup
  { Some([user_embedding |-> q, top_n |-> n]) :
      q \in {None} \cup {Some(v) : v \in QueryVectors}, n \in TopNs }

\* what the storage query does: it throws, it answers with an error, or it
\* answers with the rows of the table
Stores ==
  {[kind |-> "threw"], [kind |-> "error"]} \cup
  {[kind |-> "ok", table |-> t] : t \in Tables}

\* the Python service is reachable or it is not (fetch rejects)
\* what the fetch of the service meets: the service, nothing (fetch throws),
\* an answer whose body is no JSON (response.json() throws), or a gateway's
\* error answer whose JSON has no error field
Nets == {"up", "down", "garbled", "bare"}

\* thresholds a caller of isVoiceMatch passes: none, 1.0, 0.8, 0.0
Thresholds == {None, Some(Real(1, 1)), Some(Real(8, 10)), Some(Real(0, 1))}

Speakers == 1 .. 2

(* ------------------- the Python service: extraction -------------------- *)

EmbeddingSize == 192

\* 4.4 the extractor of a profile: a vector of EmbeddingSize components that
\* depends on the speaker and on the model that produced it
Extractor(profile, speaker) ==
  [i \in 1 .. EmbeddingSize |->
     IF i = speaker THEN 1
     ELSE IF i = EmbeddingSize /\ profile = "AsianProfile" THEN 1
     ELSE 0]

\* the uploads: speech in a language by a speaker, which the language
\* identifier labels with some confidence, and bytes that are no audio
Confidences == {Real(1, 2), Real(19, 20)}

Audios ==
  [kind : {"speech"}, language : Codes, speaker : Speakers,
   confidence : Confidences]
    \cup {[kind |-> "malformed", language |-> "", speaker |-> 1,
           confidence |-> Real(0, 1)]}

\* 4.1 the feature pipeline decodes the bytes or fails
Decodes(audio) == audio.kind = "speech"

\* 4.2 the language identifier: a label and its confidence
identify(audio) ==
  [language |-> audio.language, confidence |-> audio.confidence]

\* extraction with the international extractor whatever the label
extract_AlwaysInternational(audio) ==
  IF ~Decodes(audio)
  THEN [response |-> ErrorResponse(400, "DecodeError"),
        calls |-> <<[endpoint |-> "/extract-embedding", profile |-> "none",
                     ran |-> <<"feature pipeline">>]>>]
  ELSE LET id == identify(audio)
           embedding == Extractor("InternationalProfile", audio.speaker)
       IN  [response |->
              [status |-> 200,
               body |-> [success |-> TRUE,
                         embedding |-> embedding,
                         language |-> id.language,
                         confidence |-> id.confidence,
                         embedding_size |-> Len(embedding)]],
            calls |-> <<[endpoint |-> "/extract-embedding",
                         profile |-> "InternationalProfile",
                         ran |-> <<"feature pipeline", "language identifier",
                                   "InternationalProfile">>]>>]

\* POST /extract-embedding: decoding, language identification, routing,
\* extraction; ran lists the components in the order they were run
extract(audio) ==
  IF ~Decodes(audio)
  THEN [response |-> ErrorResponse(400, "DecodeError"),
        calls |-> <<[endpoint |-> "/extract-embedding", profile |-> "none",
                     ran |-> <<"feature pipeline">>]>>]
  ELSE LET id == identify(audio)
           profile == route(id.language)
           embedding == Extractor(profile, audio.speaker)
       IN  [response |->
              [status |-> 200,
               body |-> [success |-> TRUE,
                         embedding |-> embedding,
                         language |-> id.language,
                         confidence |-> id.confidence,
                         embedding_size |-> Len(embedding)]],
            calls |-> <<[endpoint |-> "/extract-embedding",
                         profile |-> profile,
                         ran |-> <<"feature pipeline", "language identifier",
                                   profile>>]>>]

\* POST /detect-language: decoding and language identification only
detect_language(audio) ==
  IF ~Decodes(audio)
  THEN ErrorResponse(400, "DecodeError")
  ELSE LET id == identify(audio)
       IN  [status |-> 200,
            body |-> [success |-> TRUE,
                      language |-> id.language,
                      confidence |-> id.confidence]]

(* ------------- src/src/app/api/voice/compare/route.ts ------------------ *)

InternalServerError == ErrorResponse(500, "Internal server error")

Call(endpoint) == [endpoint |-> endpoint]

\* the await of fetch or of response.json() throws
Throws(net) == net \in {"down", "garbled"}

\* a non-OK answer without an error message
BareError == [status |-> 502, body |-> [error |-> ""]]

\* the answer the fetch resolves to
Fetch(net, answer) == IF net = "bare" THEN BareError ELSE answer

\* response.ok
Ok(r) == r.status >= 200 /\ r.status <= 299

\* { error: error.error || fallback }, { status: response.status }
PassError(r, fallback) ==
  ErrorResponse(r.status, IF r.body.error = "" THEN fallback ELSE r.body.error)

\* the handler without its check of response.ok
CompareForward_IgnoringStatus(r) == [status |-> 200, body |-> r.body]

\* the part of the handler that follows the fetch
CompareForward(r) ==
  IF ~Ok(r) THEN PassError(r, "Failed to compare voices")
  ELSE [status |-> 200, body |-> r.body]

\* the handler with the fetch placed ahead of the check of the embeddings
ComparePOST_FetchingFirst(body, net) ==
  IF body = None
  THEN [response |-> InternalServerError, calls |-> <<>>]
  ELSE LET embedding1 == body[1].embedding1
           embedding2 == body[1].embedding2
       IN  IF Throws(net)
           THEN [response |-> InternalServerError,
                 calls |-> <<Call("/compare-voices")>>]
           ELSE IF ~Truthy(embedding1) \/ ~Truthy(embedding2)
           THEN [response |->
                   ErrorResponse(400, "Both embedding1 and embedding2 are required"),
                 calls |-> <<Call("/compare-voices")>>]
           ELSE [response |->
                   CompareForward(
                     Fetch(net, compare_voices(embedding1[1], embedding2[1]))),
                 calls |-> <<Call("/compare-voices")>>]

ComparePOST(body, net) ==
  IF body = None
  THEN [response |-> InternalServerError, calls |-> <<>>]
  ELSE LET embedding1 == body[1].embedding1
           embedding2 == body[1].embedding2
       IN  IF ~Truthy(embedding1) \/ ~Truthy(embedding2)
           THEN [response |->
                   ErrorResponse(400, "Both embedding1 and embedding2 are required"),
                 calls |-> <<>>]
           ELSE IF Throws(net)
           THEN [response |-> InternalServerError,
                 calls |-> <<Call("/compare-voices")>>]
           ELSE [response |->
                   CompareForward(
                     Fetch(net, compare_voices(embedding1[1], embedding2[1]))),
                 calls |-> <<Call("/compare-voices")>>]

(* ------------- src/src/app/api/voice/find-match/route.ts --------------- *)

DefaultTopN == 5

\* the filter inverted: .is('voice_embedding', null)
SelectSubmissions_OnlyNull(table) ==
  SelectSeq(table, LAMBDA row : row.voice_embedding = None)

\* .from('submissions').select('id, voice_embedding, voice_language,
\*   user_name, location_name').not('voice_embedding', 'is', null)
SelectSubmissions(table) ==
  SelectSeq(table, LAMBDA row : row.voice_embedding # None)

\* the records built in reverse order
stored_embeddings_Reversed(submissions) ==
  [i \in DOMAIN submissions |->
     LET sub == submissions[Len(submissions) + 1 - i]
     IN  [id |-> sub.id,
          embedding |-> sub.voice_embedding,
          metadata |-> [user_name |-> sub.user_name,
                        location_name |-> sub.location_name,
                        language |-> sub.voice_language]]]

\* the last submission left out
stored_embeddings_WithoutLast(submissions) ==
  [i \in 1 .. Len(submissions) - 1 |->
     [id |-> submissions[i].id,
      embedding |-> submissions[i].voice_embedding,
      metadata |-> [user_name |-> submissions[i].user_name,
                    location_name |-> submissions[i].location_name,
                    language |-> submissions[i].voice_language]]]

\* every record given the first submission's user_name
stored_embeddings_FirstUserName(submissions) ==
  [i \in DOMAIN submissions |->
     [id |-> submissions[i].id,
      embedding |-> submissions[i].voice_embedding,
      metadata |-> [user_name |-> submissions[1].user_name,
                    location_name |-> submissions[i].location_name,
                    language |-> submissions[i].voice_language]]]

\* submissions.map(sub => ({ id, embedding, metadata }))
stored_embeddings(submissions) ==
  [i \in DOMAIN submissions |->
     [id |-> submissions[i].id,
      embedding |-> submissions[i].voice_embedding,
      metadata |-> [user_name |-> submissions[i].user_name,
                    location_name |-> submissions[i].location_name,
                    language |-> submissions[i].voice_language]]]

\* an empty table answered as an error
EmptyResult_AsError == ErrorResponse(404, "No stored voice embeddings found")

\* the answer when no stored embedding was found
EmptyResult ==
  [status |-> 200,
   body |-> [success |-> TRUE,
             best_match |-> None,
             top_matches |-> <<>>,
             message |-> "No stored voice embeddings found"]]

\* a non-OK answer passed on as status 500 whatever the service's status
FindMatchForward_Always500(r) ==
  IF ~Ok(r) THEN ErrorResponse(500, r.body.error)
  ELSE [status |-> 200, body |-> r.body]

FindMatchForward(r) ==
  IF ~Ok(r) THEN PassError(r, "Failed to find match")
  ELSE [status |-> 200, body |-> r.body]

\* createClient() and the query are the external store: a throw at either
\* (a client factory that is not a function included) lands in the catch
FindMatchPOST(body, store, net) ==
  IF body = None
  THEN [response |-> InternalServerError, calls |-> <<>>]
  ELSE LET user_embedding == body[1].user_embedding
           top_n == IF body[1].top_n = None THEN DefaultTopN ELSE body[1].top_n[1]
       IN  IF ~Truthy(user_embedding)
           THEN [response |-> ErrorResponse(400, "user_embedding is required"),
                 calls |-> <<>>]
           ELSE IF store.kind = "threw"
           THEN [response |-> InternalServerError, calls |-> <<>>]
           ELSE IF store.kind = "error"
           THEN [response |-> ErrorResponse(500, "Failed to fetch stored embeddings"),
                 calls |-> <<>>]
           ELSE LET submissions == SelectSubmissions(store.table)
                IN  IF Len(submissions) = 0
                    THEN [response |-> EmptyResult, calls |-> <<>>]
                    ELSE IF Throws(net)
                    THEN [response |-> InternalServerError,
                          calls |-> <<Call("/find-match")>>]
                    ELSE [response |->
                            FindMatchForward(
                              Fetch(net,
                                    find_match(user_embedding[1],
                                               stored_embeddings(submissions),
                                               top_n))),
                          calls |-> <<Call("/find-match")>>]

(* ----------- src/src/app/api/voice/detect-language/route.ts ------------ *)

\* the handler without its check of response.ok
DetectForward_IgnoringStatus(r) == [status |-> 200, body |-> r.body]

\* the part of the handler that follows the fetch
DetectForward(r) ==
  IF ~Ok(r) THEN PassError(r, "Failed to detect language")
  ELSE [status |-> 200, body |-> r.body]

\* audioFile is formData.get('audio'): None when the form has no such field
DetectPOST(audioFile, net) ==
  IF audioFile = None
  THEN [response |-> ErrorResponse(400, "No audio file provided"),
        calls |-> <<>>]
  ELSE IF Throws(net)
  THEN [response |-> InternalServerError,
        calls |-> <<Call("/detect-language")>>]
  ELSE [response |-> DetectForward(Fetch(net, detect_language(audioFile[1]))),
        calls |-> <<Call("/detect-language")>>]

(* ------------ src/src/utils/voiceMatching.ts: processVoiceUpload -------- *)

\* result is what extractEmbedding returned: the JSON body of the answer
processVoiceUpload(result) ==
  IF "error" \in DOMAIN result
  THEN [threw |-> result.error]
  ELSE [embedding |-> result.embedding,
        language |-> result.language,
        confidence |-> result.confidence]

(* ------ src/src/utils/voiceMatching.ts: AudioRecorder (lines 18-121) ---- *)

\* new AudioRecorder(): mediaRecorder null (0), no recording made, no timer
\* set; now is the time in seconds, fired the log of the timers that ran
NewAudioRecorder ==
  [now |-> 0, mediaRecorder |-> 0, recordings |-> <<>>, timers |-> {},
   fired |-> <<>>, outcome |-> "none"]

\* what MediaRecorder.stop() does on a recorder that is inactive: browsers
\* throw InvalidStateError or return at once, and then no stop event follows
Browsers == {"throws", "ignores"}

\* the time the recorder is watched for
MaxTime == MaxRecordings * MaxDuration

\* the state of this.mediaRecorder ("none" when it is null)
StateOf(a) ==
  IF a.mediaRecorder = 0 THEN "none"
  ELSE a.recordings[a.mediaRecorder].state

\* startRecording(config) with the microphone granted or not; maxDuration 0
\* stands for a config without maxDuration
startRecording(a, maxDuration, granted) ==
  IF ~granted
  THEN [a EXCEPT !.outcome = "Failed to access microphone. Please check permissions."]
  ELSE LET k == Len(a.recordings) + 1
       IN  [a EXCEPT
              !.recordings = Append(@, [state |-> "recording",
                                        startedAt |-> a.now,
                                        maxDuration |-> maxDuration,
                                        stops |-> 0,
                                        stoppedAt |-> 0,
                                        stoppedBy |-> "nobody"]),
              !.mediaRecorder = k,
              !.timers = IF maxDuration # 0
                         THEN @ \cup {[due |-> a.now + maxDuration, of |-> k]}
                         ELSE @,
              !.outcome = "started"]

\* stopRecording(): the promise it returns resolves with the blob, rejects,
\* or stays pending when no stop event comes
stopRecording(a, by, browser) ==
  IF a.mediaRecorder = 0
  THEN [a EXCEPT !.outcome = "No recording in progress"]
  ELSE LET k == a.mediaRecorder
       IN  IF a.recordings[k].state = "recording"
           THEN [a EXCEPT !.recordings[k].state = "inactive",
                          !.recordings[k].stops = @ + 1,
                          !.recordings[k].stoppedAt = a.now,
                          !.recordings[k].stoppedBy = by,
                          !.outcome = "blob"]
           ELSE [a EXCEPT !.recordings[k].stops = @ + 1,
                          !.outcome = IF browser = "throws"
                                      THEN "InvalidStateError"
                                      ELSE "pending"]

\* the timer stops whatever it finds
TimerStops_Always(state) == TRUE

\* this.mediaRecorder?.state === 'recording'
TimerStops(state) == state = "recording"

\* the callback of the timer t set by startRecording
autoStop(a, t, browser) ==
  LET found == StateOf(a)
      b == IF TimerStops(found) THEN stopRecording(a, "timer", browser) ELSE a
      entry == [of |-> t.of, due |-> t.due, at |-> a.now, found |-> found,
                stopped |-> IF TimerStops(found) THEN a.mediaRecorder ELSE 0,
                outcome |-> IF TimerStops(found) THEN b.outcome ELSE "nothing"]
  IN  [b EXCEPT !.timers = @ \ {t}, !.fired = Append(@, entry),
                !.outcome = IF TimerStops(found) THEN b.outcome ELSE a.outcome]

(* ------------- src/src/components/VoiceRecorder.tsx -------------------- *)

\* the component after mounting: its state, its two refs, the AudioRecorders
\* it has created, the intervals it has set, the calls of processRecording
\* that wait for an answer, and the log of what processRecording did
VoiceRecorderMounted ==
  [maxDuration |-> MaxDuration,
   isRecording |-> FALSE, isProcessing |-> FALSE, audioBlob |-> 0,
   error |-> "", detectedLanguage |-> "", matches |-> <<>>,
   recordingTime |-> 0, recorderRef |-> 0, timerRef |-> 0,
   recorders |-> <<>>, intervals |-> <<>>, tasks |-> {},
   onMatchFound |-> <<>>, runs |-> <<>>, pressedStop |-> FALSE]

\* new AudioRecorder() whose startRecording waits for the microphone: no
\* timer (-1), no handler of the stop event, no stop event on its way
NewRecorder ==
  [state |-> "starting", timeout |-> -1, onstop |-> "none", event |-> FALSE]

\* what extractEmbedding resolves to: the body of the route's answer, of any
\* shape, or the error of its catch block
ExtractAnswers ==
  { [embedding |-> "embedding", language |-> "en"],
    [error |-> "DecodeError"],
    [error |-> "Failed to extract voice embedding"],
    [detail |-> "Not Found"],
    [null |-> TRUE] }

\* what findVoiceMatch resolves to when the embedding was sent
MatchAnswers ==
  { [top_matches |-> <<"voice 1", "voice 2">>],
    [top_matches |-> <<>>],
    [message |-> "ok"],
    [error |-> "Failed to find match"],
    [error |-> "Failed to find voice match"],
    [null |-> TRUE] }

\* and when user_embedding was undefined: the route's 400, or the catch block
NoEmbeddingAnswers ==
  { [error |-> "User embedding is required"],
    [error |-> "Failed to find voice match"] }

\* the call that was not made
NotCalled == [none |-> TRUE]

\* the answer is a JSON object ('error' in null throws a TypeError)
IsObject(answer) == "null" \notin DOMAIN answer

\* no answer is taken for an error
HasError_Never(answer) == FALSE

\* 'error' in result
HasError(answer) == "error" \in DOMAIN answer

\* the end of processRecording for the recording rec: the log entry keeps
\* what the two calls gave and the state the component is left in
finishProcessing(v, task, matched) ==
  [v EXCEPT
     !.isProcessing = FALSE,
     !.tasks = @ \ {task},
     !.runs = Append(@, [rec |-> task.rec, extracted |-> task.extracted,
                         matched |-> matched,
                         error |-> v.error, matches |-> v.matches])]

\* processRecording up to its first await
processRecording(v, rec) ==
  [v EXCEPT !.isProcessing = TRUE, !.error = "",
            !.tasks = @ \cup {[rec |-> rec, pc |-> "extractEmbedding",
                                extracted |-> NotCalled]}]

\* processRecording from the answer of extractEmbedding to its next await,
\* or through catch and finally
afterExtract(v, task, answer) ==
  LET got == [task EXCEPT !.extracted = answer]
      w == [v EXCEPT !.tasks = (@ \ {task}) \cup {got}]
  IN  IF ~IsObject(answer)
      THEN finishProcessing([w EXCEPT !.error = "TypeError"], got, NotCalled)
      ELSE IF HasError(answer)
      THEN finishProcessing([w EXCEPT !.error = answer.error], got, NotCalled)
      ELSE [v EXCEPT
              !.detectedLanguage = IF "language" \in DOMAIN answer
                                   THEN answer.language ELSE "",
              !.tasks = (@ \ {task}) \cup
                        {[got EXCEPT !.pc = "findVoiceMatch"]}]

\* processRecording from the answer of findVoiceMatch to its end
afterMatch(v, task, answer) ==
  IF ~IsObject(answer)
  THEN finishProcessing([v EXCEPT !.error = "TypeError"], task, answer)
  ELSE IF HasError(answer)
  THEN finishProcessing([v EXCEPT !.error = answer.error], task, answer)
  ELSE LET top == "top_matches" \in DOMAIN answer
           w == [v EXCEPT
                   !.matches = IF top THEN answer.top_matches ELSE <<>>,
                   !.onMatchFound =
                      IF top THEN Append(@, [rec |-> task.rec,
                                             matches |-> answer.top_matches])
                      ELSE @]
       IN  finishProcessing(w, task, answer)

\* the component's startRecording up to its await
pressStart(v) ==
  [v EXCEPT !.error = "", !.audioBlob = 0, !.matches = <<>>,
            !.detectedLanguage = "", !.recordingTime = 0,
            !.recorders = Append(@, NewRecorder),
            !.recorderRef = Len(v.recorders) + 1,
            !.pressedStop = FALSE]

\* AudioRecorder.startRecording of recorder i from the answer of getUserMedia
\* on, and the component's startRecording after its await
started(v, i, granted) ==
  IF ~granted
  THEN [v EXCEPT
          !.recorders[i].state = "denied",
          !.error = "Failed to access microphone. Please check permissions."]
  ELSE [v EXCEPT
          !.recorders[i].state = "recording",
          !.recorders[i].timeout = IF v.maxDuration # 0
                                   THEN v.maxDuration ELSE -1,
          !.isRecording = TRUE,
          !.intervals = Append(@, [of |-> i, left |-> 1, live |-> TRUE]),
          !.timerRef = Len(v.intervals) + 1]

\* the component's stopRecording up to its await, or through its catch
componentStop(v, browser) ==
  IF v.recorderRef = 0 THEN v
  ELSE LET i == v.recorderRef
           r == v.recorders[i]
           cleared ==
             [v EXCEPT
                !.intervals = [j \in DOMAIN v.intervals |->
                                 IF j = v.timerRef
                                 THEN [of |-> v.intervals[j].of, left |-> 0,
                                       live |-> FALSE]
                                 ELSE v.intervals[j]],
                !.timerRef = 0]
       IN  IF r.state \in {"starting", "denied"}
           THEN [cleared EXCEPT !.error = "Failed to stop recording"]
           ELSE IF r.state = "recording"
           THEN [cleared EXCEPT !.recorders[i].state = "inactive",
                                !.recorders[i].event = TRUE,
                                !.recorders[i].onstop = "component"]
           ELSE IF browser = "throws"
           THEN [cleared EXCEPT !.recorders[i].onstop = "rejected",
                                !.error = "Failed to stop recording"]
           ELSE [cleared EXCEPT !.recorders[i].onstop = "component"]

\* the callback of the recorder's own timer
recorderTimeout(v, i) ==
  IF TimerStops(v.recorders[i].state)
  THEN [v EXCEPT !.recorders[i].timeout = -1,
                 !.recorders[i].state = "inactive",
                 !.recorders[i].event = TRUE,
                 !.recorders[i].onstop = "timer"]
  ELSE [v EXCEPT !.recorders[i].timeout = -1]

\* the stop event of recorder i: its handler resolves the promise, and where
\* the component awaits that promise its stopRecording goes on
stopEvent(v, i) ==
  LET w == [v EXCEPT !.recorders[i].event = FALSE]
  IN  IF v.recorders[i].onstop = "component"
      THEN processRecording([w EXCEPT !.audioBlob = i,
                                      !.isRecording = FALSE], i)
      ELSE w

\* one call of the interval's callback
tick(v, j, browser) ==
  LET w == [v EXCEPT !.intervals[j].left = 1]
  IN  IF v.recordingTime >= v.maxDuration
      THEN [componentStop(w, browser) EXCEPT
              !.recordingTime = v.maxDuration]
      ELSE [w EXCEPT !.recordingTime = @ + 1]

(* ------ src/unnamed/part_004 (PlaceSearch), part_002 (forwardGeocode) --- *)

\* a query is the sequence of its characters
Letters == {" ", "a"}

Queries == SeqsUpTo(Letters, MaxQuery)

\* String.prototype.trim
RECURSIVE trimStart(_)
trimStart(q) ==
  IF q # <<>> /\ Head(q) = " " THEN trimStart(Tail(q)) ELSE q

RECURSIVE trimEnd(_)
trimEnd(q) ==
  IF q # <<>> /\ q[Len(q)] = " " THEN trimEnd(SubSeq(q, 1, Len(q) - 1)) ELSE q

trim(q) == trimEnd(trimStart(q))

\* !searchQuery.trim()
Blank(q) == trim(q) = <<>>

\* the delay of the timer, in milliseconds
Debounce == 300

\* the place a result names
PlaceName == <<"A">>

\* data.features || [] for the request with this id, or [] when the fetch
\* fails; each result remembers the request it answers
Features(id) == { <<>>, <<[place_name |-> PlaceName, request |-> id]>> }

\* the component after mounting and its first effect; since counts the
\* milliseconds for which searchQuery has not changed, changes the calls of
\* setSearchQuery, requests and applied log the fetches and their answers
PlaceSearchMounted ==
  [searchQuery |-> <<>>, searchResults |-> <<>>, isDropdownOpen |-> FALSE,
   isLoading |-> FALSE, timeoutRef |-> 0, timers |-> {}, inflight |-> {},
   requests |-> <<>>, applied |-> <<>>, since |-> 0, changes |-> 0]

\* an effect that leaves the pending timer alone
clearTimeout_Forgotten(timers, id) == timers

\* clearTimeout(timeoutRef.current)
clearTimeout(timers, id) == {t \in timers : t.id # id}

\* the effect on [searchQuery], run after searchQuery changed to q
searchEffect(p, q) ==
  LET w == [p EXCEPT !.searchQuery = q, !.since = 0, !.changes = @ + 1,
                     !.timers = clearTimeout(@, p.timeoutRef)]
  IN  IF Blank(q)
      THEN [w EXCEPT !.searchResults = <<>>, !.isDropdownOpen = FALSE]
      ELSE [w EXCEPT !.isLoading = TRUE,
                     !.timers = @ \cup {[id |-> w.changes, query |-> q,
                                         left |-> Debounce]},
                     !.timeoutRef = w.changes]

\* setSearchQuery(q): React runs the effect only when the value changed
setSearchQuery(p, q) == IF q = p.searchQuery THEN p ELSE searchEffect(p, q)

\* handlePlaceSelect
handlePlaceSelect(p, result) ==
  [setSearchQuery(p, result.place_name) EXCEPT !.isDropdownOpen = FALSE]

\* handleClear
handleClear(p) ==
  LET w == [p EXCEPT !.searchResults = <<>>, !.isDropdownOpen = FALSE]
  IN  setSearchQuery(w, <<>>)

\* the callback of the timer t up to its await: without a token, or for a
\* blank query, nothing is fetched
timerCallback(p, t, token) ==
  LET w == [p EXCEPT !.timers = @ \ {t}]
  IN  IF ~token THEN [w EXCEPT !.isLoading = FALSE]
      ELSE LET id == Len(p.requests) + 1
               sent == IF Blank(t.query) THEN w
                       ELSE [w EXCEPT !.requests =
                                        Append(@, [query |-> t.query,
                                                   change |-> t.id,
                                                   current |-> p.searchQuery,
                                                   since |-> p.since])]
           IN  [sent EXCEPT !.inflight = @ \cup {[id |-> id, query |-> t.query,
                                                  fetched |-> ~Blank(t.query)]}]

\* the request whose answer makes the list of results (0: none)
Shown(p) == IF p.searchResults = <<>> THEN 0 ELSE p.searchResults[1].request

\* the callback after its await
applyResults(p, r, results) ==
  [p EXCEPT !.inflight = @ \ {r},
            !.searchResults = results,
            !.isDropdownOpen = Len(results) > 0,
            !.isLoading = FALSE,
            !.applied = Append(@, [request |-> r.id, query |-> r.query,
                                   over |-> Shown(p),
                                   current |-> p.searchQuery])]

(* ------------------- the Python service: its state -------------------- *)

Clients == 1 .. NumClients

\* the models in the order the startup log loads them
StartupOrder == <<"AsianProfile", "InternationalProfile", "language identifier">>

AllModels == Range(StartupOrder)

(* ------------------------------ the system ----------------------------- *)

\* no request is being served
Idle ==
  /\ request = [op |-> "none"]
  /\ response = [status |-> 0]
  /\ backend = <<>>
  /\ job = [pc |-> "idle"]
  /\ ar = NewAudioRecorder
  /\ vr = VoiceRecorderMounted
  /\ ps = PlaceSearchMounted

\* the service after startup: every model loaded, once, nothing in hand
Started ==
  /\ models = AllModels
  /\ loads = [m \in AllModels |-> 1]
  /\ pending = [c \in Clients |-> [pc |-> "idle"]]

Init == Idle /\ Started

\* a client posts to /api/voice/compare
CompareRequest ==
  /\ request.op = "none"
  /\ \E body \in CompareBodies, net \in Nets :
       LET r == ComparePOST(body, net)
       IN  /\ request' = [op |-> "compare", body |-> body, net |-> net]
           /\ response' = r.response
           /\ backend' = r.calls
  /\ UNCHANGED <<serviceVars, job, uiVars>>

\* a client posts to /api/voice/find-match
FindMatchRequest ==
  /\ request.op = "none"
  /\ \E body \in FindMatchBodies, store \in Stores, net \in Nets :
       LET r == FindMatchPOST(body, store, net)
       IN  /\ request' = [op |-> "find-match", body |-> body, store |-> store,
                          net |-> net]
           /\ response' = r.response
           /\ backend' = r.calls
  /\ UNCHANGED <<serviceVars, job, uiVars>>

\* a client posts to the service's own /find-match with the records it holds
\* (a record may lack its embedding)
ServiceFindMatch ==
  /\ request.op = "none"
  /\ \E q \in QueryVectors, t \in Tables, n \in -1 .. MaxTopN :
       /\ request' = [op |-> "service-find-match", user_embedding |-> q,
                      stored_embeddings |-> stored_embeddings(t), top_n |-> n]
       /\ response' = find_match(q, stored_embeddings(t), n)
       /\ backend' = <<Call("/find-match")>>
  /\ UNCHANGED <<serviceVars, job, uiVars>>

\* a client posts audio to the service's /extract-embedding
ExtractRequest ==
  /\ request.op = "none"
  /\ \E audio \in Audios :
       LET r == extract(audio)
       IN  /\ request' = [op |-> "extract", audio |-> audio]
           /\ response' = r.response
           /\ backend' = r.calls
  /\ UNCHANGED <<serviceVars, job, uiVars>>

\* a client posts a form to /api/voice/detect-language
DetectLanguageRequest ==
  /\ request.op = "none"
  /\ \E audioFile \in {None} \cup {Some(a) : a \in Audios}, net \in Nets :
       LET r == DetectPOST(audioFile, net)
       IN  /\ request' = [op |-> "detect-language", audioFile |-> audioFile,
                          net |-> net]
           /\ response' = r.response
           /\ backend' = r.calls
  /\ UNCHANGED <<serviceVars, job, uiVars>>

\* processVoiceUpload receives the answer to its upload
ProcessVoiceUpload ==
  /\ request.op = "extract"
  /\ request' = [op |-> "processVoiceUpload", audio |-> request.audio,
                 result |-> response.body]
  /\ response' = [status |-> 0, value |-> processVoiceUpload(response.body)]
  /\ backend' = backend
  /\ UNCHANGED <<serviceVars, job, uiVars>>

\* the caller of compareVoices judges the similarity it got with isVoiceMatch
JudgeMatch ==
  /\ request.op = "compare"
  /\ response.status = 200
  /\ \E threshold \in Thresholds :
       /\ request' = [op |-> "isVoiceMatch",
                      embedding1 |-> request.body[1].embedding1[1],
                      embedding2 |-> request.body[1].embedding2[1],
                      similarity |-> response.body.similarity,
                      is_match |-> response.body.is_match,
                      threshold |-> threshold]
       /\ response' = [status |-> 0,
                       value |-> isVoiceMatch(response.body.similarity, threshold)]
       /\ backend' = <<>>
  /\ UNCHANGED <<serviceVars, job, uiVars>>

\* the client has its answer; nothing of the request is kept
Complete ==
  /\ request.op # "none"
  /\ request' = [op |-> "none"]
  /\ response' = [status |-> 0]
  /\ backend' = <<>>
  /\ UNCHANGED <<serviceVars, job, uiVars>>

Next ==
  \/ CompareRequest
  \/ FindMatchRequest
  \/ ServiceFindMatch
  \/ ExtractRequest
  \/ DetectLanguageRequest
  \/ ProcessVoiceUpload
  \/ JudgeMatch
  \/ Complete

Spec == Init /\ [][Next]_vars

(* ------------- the Python service: startup and scheduling -------------- *)

\* any model loaded counts as ready
Ready_AnyModel(ms) == ms # {}

\* the service accepts traffic once all three models are loaded
Ready(ms) == ms = AllModels

\* a model is loaded again whether it is loaded or not
Unloaded_Always(ms, m) == TRUE

\* loading happens once: only a model not loaded yet is loaded
Unloaded(ms, m) == m \notin ms

NotReadyError == ErrorResponse(503, "NotReadyError")

TimeoutError == ErrorResponse(504, "TimeoutError")

\* steps of inference of a request too slow for the timeout
Slow == InferenceTimeout + 1

\* the requests the clients send: an extraction and a detection on malformed
\* bytes that take one step of inference, a comparison that takes more steps
\* than the timeout allows, a detection whose inference hangs
ServiceRequests ==
  { [op |-> "extract", duration |-> 1, hangs |-> FALSE,
     audio |-> [kind |-> "speech", language |-> "zh", speaker |-> 1,
                confidence |-> Real(19, 20)]],
    [op |-> "detect-language", duration |-> 1, hangs |-> FALSE,
     audio |-> [kind |-> "malformed", language |-> "", speaker |-> 1,
                confidence |-> Real(0, 1)]],
    [op |-> "detect-language", duration |-> 1, hangs |-> TRUE,
     audio |-> [kind |-> "speech", language |-> "en", speaker |-> 2,
                confidence |-> Real(1, 2)]],
    [op |-> "compare-voices", duration |-> Slow, hangs |-> FALSE,
     embedding1 |-> <<1, 0>>, embedding2 |-> <<0, 1>>] }

\* embedding-producing and language-detecting requests need the models
NeedsModels(req) == req.op \in {"extract", "detect-language"}

\* the operation itself: a function of the request's own inputs
Serve(req) ==
  IF req.op = "extract" THEN extract(req.audio).response
  ELSE IF req.op = "detect-language" THEN detect_language(req.audio)
  ELSE compare_voices(req.embedding1, req.embedding2)

\* what the route that forwarded the request answers its client
Forward(req, r) ==
  IF req.op = "compare-voices" THEN CompareForward(r)
  ELSE IF req.op = "detect-language" THEN DetectForward(r)
  ELSE r

\* the inference is through; one that hangs never is
Finished(p) == ~p.req.hangs /\ p.elapsed >= p.req.duration

\* a request is never cut off
TimedOut_Never(p) == FALSE

\* the inference has used up the timeout without finishing
TimedOut(p) == ~Finished(p) /\ p.elapsed >= InferenceTimeout

\* one worker for all: a request waits while an earlier client's is running
Blocked_BySingleWorker(c) ==
  \E d \in Clients : d < c /\ pending[d].pc = "running"

\* no request blocks on another request's completion
Blocked(c) == FALSE

Done(p, result) ==
  [pc |-> "done", req |-> p.req, ready |-> p.ready,
   overlapped |-> p.overlapped,
   elapsed |-> p.elapsed, result |-> result,
   answer |-> Forward(p.req, result)]

\* startup loads the next model
LoadModel ==
  /\ \E i \in DOMAIN StartupOrder :
       /\ \A j \in 1 .. i - 1 : StartupOrder[j] \in models
       /\ Unloaded(models, StartupOrder[i])
       /\ loads[StartupOrder[i]] < 2
       /\ models' = models \cup {StartupOrder[i]}
       /\ loads' = [loads EXCEPT ![StartupOrder[i]] = @ + 1]
  /\ UNCHANGED <<pending, apiVars, job, uiVars>>

\* a request arrives: refused at once while the models are loading,
\* otherwise its inference starts
Receive(c) ==
  /\ pending[c].pc = "idle"
  /\ \E req \in ServiceRequests :
       LET p == [pc |-> "running", req |-> req, ready |-> Ready(models),
                 overlapped |-> \E d \in Clients : pending[d].pc = "running",
                 elapsed |-> 0]
       IN  pending' = [pending EXCEPT ![c] =
                         IF NeedsModels(req) /\ ~p.ready
                         THEN Done(p, NotReadyError)
                         ELSE p]
  /\ UNCHANGED <<models, loads, apiVars, job, uiVars>>

\* a step of a request's inference (steps are counted up to the first one
\* past the timeout)
Tick(c) ==
  /\ pending[c].pc = "running"
  /\ pending[c].elapsed <= InferenceTimeout
  /\ ~Blocked(c)
  /\ ~Finished(pending[c])
  /\ ~TimedOut(pending[c])
  /\ pending' = [pending EXCEPT ![c].elapsed = @ + 1]
  /\ UNCHANGED <<models, loads, apiVars, job, uiVars>>

\* the inference is through: the request is answered
Finish(c) ==
  /\ pending[c].pc = "running"
  /\ ~Blocked(c)
  /\ Finished(pending[c])
  /\ pending' = [pending EXCEPT ![c] = Done(@, Serve(@.req))]
  /\ UNCHANGED <<models, loads, apiVars, job, uiVars>>

\* the inference is cut off at the timeout
Timeout(c) ==
  /\ pending[c].pc = "running"
  /\ TimedOut(pending[c])
  /\ pending' = [pending EXCEPT ![c] = Done(@, TimeoutError)]
  /\ UNCHANGED <<models, loads, apiVars, job, uiVars>>

\* the client has its answer
Deliver(c) ==
  /\ pending[c].pc = "done"
  /\ pending' = [pending EXCEPT ![c] = [pc |-> "idle"]]
  /\ UNCHANGED <<models, loads, apiVars, job, uiVars>>

\* the process starts with no model loaded
ServiceInit ==
  /\ Idle
  /\ models = {}
  /\ loads = [m \in AllModels |-> 0]
  /\ pending = [c \in Clients |-> [pc |-> "idle"]]

ServiceNext ==
  \/ LoadModel
  \/ \E c \in Clients : Receive(c)
  \/ \E c \in Clients : Tick(c)
  \/ \E c \in Clients : Finish(c)
  \/ \E c \in Clients : Timeout(c)
  \/ \E c \in Clients : Deliver(c)

ServiceSpec == ServiceInit /\ [][ServiceNext]_vars

\* every inference that can take a step or be ended eventually is
FairServiceSpec ==
  /\ ServiceSpec
  /\ \A c \in Clients :
       WF_vars(Tick(c)) /\ WF_vars(Finish(c)) /\ WF_vars(Timeout(c))

(* ------------ the Python service: rank with parallel comparisons ------- *)

\* the collections ranked in parallel: embeddings that tie on similarity,
\* one of another length, records without embedding
RankValues ==
  {Some(<<1, 0>>), Some(<<2, 0>>), Some(<<0, 1>>), Some(<<1, 0, 0>>), None}

RankTables == {Table(vs) : vs \in SeqsUpTo(RankValues, MaxColl)}

\* the positions of the records that are compared
ComparableAt(query, stored) ==
  {p \in DOMAIN stored : Comparable(query, stored[p])}

\* ties are left in the order the comparisons completed
Ahead_ByCompletion(a, m) == Geq(a.similarity, m.similarity)

\* a stays ahead of m: it is more similar, or equally similar and of an
\* earlier record of the collection
Ahead(a, m) ==
  \/ Gt(a.similarity, m.similarity)
  \/ /\ a.similarity = m.similarity
     /\ a.position < m.position

RECURSIVE ParallelInsert(_, _)
ParallelInsert(s, m) ==
  IF s = <<>> THEN <<m>>
  ELSE IF Ahead(Head(s), m)
       THEN <<Head(s)>> \o ParallelInsert(Tail(s), m)
       ELSE <<m>> \o s

RECURSIVE ParallelSort(_)
ParallelSort(s) ==
  IF s = <<>> THEN <<>>
  ELSE ParallelInsert(ParallelSort(SubSeq(s, 1, Len(s) - 1)), s[Len(s)])

\* the ranking gathered from the comparisons in the order they completed
parallel_rank(completed, top_n) ==
  LET sorted == ParallelSort(completed)
  IN  [i \in 1 .. Min(top_n, Len(sorted)) |-> sorted[i].result]

\* a call of rank with top_n >= 1 hands its records to the workers
StartRank ==
  /\ job.pc = "idle"
  /\ \E q \in QueryVectors, t \in RankTables, n \in 1 .. MaxTopN :
       job' = [pc |-> "comparing", query |-> q,
               stored |-> stored_embeddings(t), top_n |-> n,
               completed |-> <<>>]
  /\ UNCHANGED <<apiVars, serviceVars, uiVars>>

\* the comparison of some record completes, whichever is first
CompareRecord ==
  /\ job.pc = "comparing"
  /\ \E p \in ComparableAt(job.query, job.stored) :
       /\ \A i \in DOMAIN job.completed : job.completed[i].position # p
       /\ LET m == MatchResult(job.query, job.stored[p])
          IN  job' = [job EXCEPT !.completed =
                        Append(@, [position |-> p, similarity |-> m.similarity,
                                   result |-> m])]
  /\ UNCHANGED <<apiVars, serviceVars, uiVars>>

\* every comparison has completed: the results are sorted and cut to top_n
Gather ==
  /\ job.pc = "comparing"
  /\ Len(job.completed) = Cardinality(ComparableAt(job.query, job.stored))
  /\ job' = [pc |-> "done", query |-> job.query, stored |-> job.stored,
             top_n |-> job.top_n, completed |-> job.completed,
             output |-> parallel_rank(job.completed, job.top_n)]
  /\ UNCHANGED <<apiVars, serviceVars, uiVars>>

\* the caller has the ranking
ReturnRank ==
  /\ job.pc = "done"
  /\ job' = [pc |-> "idle"]
  /\ UNCHANGED <<apiVars, serviceVars, uiVars>>

RankNext ==
  \/ StartRank
  \/ CompareRecord
  \/ Gather
  \/ ReturnRank

RankSpec == Init /\ [][RankNext]_vars

(* ------------------- an AudioRecorder and its caller -------------------- *)

\* the caller starts a recording when none is running
StartRecording ==
  /\ Len(ar.recordings) < MaxRecordings
  /\ StateOf(ar) # "recording"
  /\ \E maxDuration \in 0 .. MaxDuration, granted \in BOOLEAN :
       ar' = startRecording(ar, maxDuration, granted)
  /\ UNCHANGED <<apiVars, serviceVars, job, vr, ps>>

\* the caller stops the recording (a recording is stopped at most twice)
StopRecording ==
  /\ ar.mediaRecorder # 0 => ar.recordings[ar.mediaRecorder].stops < 2
  /\ \E browser \in Browsers : ar' = stopRecording(ar, "caller", browser)
  /\ UNCHANGED <<apiVars, serviceVars, job, vr, ps>>

\* a timer that is due runs
AutoStop ==
  /\ \E t \in ar.timers, browser \in Browsers :
       /\ t.due <= ar.now
       /\ ar' = autoStop(ar, t, browser)
  /\ UNCHANGED <<apiVars, serviceVars, job, vr, ps>>

\* a second passes; a timer that is due runs first
Second ==
  /\ ar.now < MaxTime
  /\ \A t \in ar.timers : t.due > ar.now
  /\ ar' = [ar EXCEPT !.now = @ + 1]
  /\ UNCHANGED <<apiVars, serviceVars, job, vr, ps>>

AudioRecorderNext ==
  \/ StartRecording
  \/ StopRecording
  \/ AutoStop
  \/ Second

AudioRecorderSpec == Init /\ [][AudioRecorderNext]_vars

(* ------------------ the VoiceRecorder and its user --------------------- *)

\* Start Recording or Record Again is pressed
PressStart ==
  /\ ~vr.isRecording
  /\ ~vr.isProcessing
  /\ Len(vr.recorders) < MaxRecordings
  /\ vr' = pressStart(vr)
  /\ UNCHANGED <<apiVars, serviceVars, job, ar, ps>>

\* the user grants or denies the microphone
GetUserMedia ==
  /\ \E i \in DOMAIN vr.recorders, granted \in BOOLEAN :
       /\ vr.recorders[i].state = "starting"
       /\ vr' = started(vr, i, granted)
  /\ UNCHANGED <<apiVars, serviceVars, job, ar, ps>>

\* Stop Recording is pressed
PressStop ==
  /\ vr.isRecording
  /\ \E browser \in Browsers :
       vr' = [componentStop(vr, browser) EXCEPT !.pressedStop = TRUE]
  /\ UNCHANGED <<apiVars, serviceVars, job, ar, ps>>

\* the timer of a recorder runs
RecorderTimeout ==
  /\ \E i \in DOMAIN vr.recorders :
       /\ vr.recorders[i].timeout = 0
       /\ vr' = recorderTimeout(vr, i)
  /\ UNCHANGED <<apiVars, serviceVars, job, ar, ps>>

\* the stop event of a recorder is delivered
StopEvent ==
  /\ \E i \in DOMAIN vr.recorders :
       /\ vr.recorders[i].event
       /\ vr' = stopEvent(vr, i)
  /\ UNCHANGED <<apiVars, serviceVars, job, ar, ps>>

\* an interval ticks; the timer of its recorder, set before it, runs first
IntervalTick ==
  /\ \E j \in DOMAIN vr.intervals, browser \in Browsers :
       /\ vr.intervals[j].live
       /\ vr.intervals[j].left = 0
       /\ vr.recorders[vr.intervals[j].of].timeout # 0
       /\ vr' = tick(vr, j, browser)
  /\ UNCHANGED <<apiVars, serviceVars, job, ar, ps>>

\* extractEmbedding resolves
ExtractAnswer ==
  /\ \E task \in vr.tasks, answer \in ExtractAnswers :
       /\ task.pc = "extractEmbedding"
       /\ vr' = afterExtract(vr, task, answer)
  /\ UNCHANGED <<apiVars, serviceVars, job, ar, ps>>

\* findVoiceMatch resolves
MatchAnswer ==
  /\ \E task \in vr.tasks :
       /\ task.pc = "findVoiceMatch"
       /\ \E answer \in IF "embedding" \in DOMAIN task.extracted
                        THEN MatchAnswers ELSE NoEmbeddingAnswers :
            vr' = afterMatch(vr, task, answer)
  /\ UNCHANGED <<apiVars, serviceVars, job, ar, ps>>

\* a second passes once every timer that is due has run and every stop
\* event has been delivered
VrSecond ==
  /\ \E i \in DOMAIN vr.recorders : vr.recorders[i].timeout > 0
     \/ \E j \in DOMAIN vr.intervals : vr.intervals[j].live
  /\ \A i \in DOMAIN vr.recorders :
       vr.recorders[i].timeout # 0 /\ ~vr.recorders[i].event
  /\ \A j \in DOMAIN vr.intervals :
       vr.intervals[j].live => vr.intervals[j].left > 0
  /\ vr' = [vr EXCEPT
              !.recorders = [i \in DOMAIN vr.recorders |->
                               IF vr.recorders[i].timeout > 0
                               THEN [vr.recorders[i] EXCEPT !.timeout = @ - 1]
                               ELSE vr.recorders[i]],
              !.intervals = [j \in DOMAIN vr.intervals |->
                               IF vr.intervals[j].live
                               THEN [vr.intervals[j] EXCEPT !.left = @ - 1]
                               ELSE vr.intervals[j]]]
  /\ UNCHANGED <<apiVars, serviceVars, job, ar, ps>>

VoiceRecorderNext ==
  \/ PressStart
  \/ GetUserMedia
  \/ PressStop
  \/ RecorderTimeout
  \/ StopEvent
  \/ IntervalTick
  \/ ExtractAnswer
  \/ MatchAnswer
  \/ VrSecond

VoiceRecorderSpec == Init /\ [][VoiceRecorderNext]_vars

(* --------------------- PlaceSearch and its user ------------------------ *)

\* the user types, deletes or pastes: onChange with the new value
Change ==
  /\ ps.changes < MaxChanges
  /\ \E q \in Queries :
       /\ q # ps.searchQuery
       /\ ps' = setSearchQuery(ps, q)
  /\ UNCHANGED <<apiVars, serviceVars, job, ar, vr>>

\* the clear button, shown while searchQuery is not the empty string
Clear ==
  /\ ps.changes < MaxChanges
  /\ ps.searchQuery # <<>>
  /\ ps' = handleClear(ps)
  /\ UNCHANGED <<apiVars, serviceVars, job, ar, vr>>

\* a result in the open dropdown is clicked
Select ==
  /\ ps.changes < MaxChanges
  /\ ps.isDropdownOpen
  /\ \E n \in DOMAIN ps.searchResults :
       ps' = handlePlaceSelect(ps, ps.searchResults[n])
  /\ UNCHANGED <<apiVars, serviceVars, job, ar, vr>>

\* onFocus
Focus ==
  /\ ps.searchResults # <<>>
  /\ ~ps.isDropdownOpen
  /\ ps' = [ps EXCEPT !.isDropdownOpen = TRUE]
  /\ UNCHANGED <<apiVars, serviceVars, job, ar, vr>>

\* handleClickOutside
ClickOutside ==
  /\ ps.isDropdownOpen
  /\ ps' = [ps EXCEPT !.isDropdownOpen = FALSE]
  /\ UNCHANGED <<apiVars, serviceVars, job, ar, vr>>

\* time passes, a third of the delay or all of it, up to the next timer
Pass ==
  /\ \E d \in {Debounce \div 3, Debounce} :
       /\ \A t \in ps.timers : t.left >= d
       /\ ps.timers = {} => ps.since < Debounce
       /\ ps' = [ps EXCEPT
                   !.timers = {[t EXCEPT !.left = @ - d] : t \in ps.timers},
                   !.since = IF @ + d > Debounce THEN Debounce ELSE @ + d]
  /\ UNCHANGED <<apiVars, serviceVars, job, ar, vr>>

\* a timer runs
TimerFires ==
  /\ \E t \in ps.timers, token \in BOOLEAN :
       /\ t.left = 0
       /\ ps' = timerCallback(ps, t, token)
  /\ UNCHANGED <<apiVars, serviceVars, job, ar, vr>>

\* forwardGeocode resolves
Geocoded ==
  /\ \E r \in ps.inflight :
       \E results \in IF r.fetched THEN Features(r.id) ELSE {<<>>} :
          ps' = applyResults(ps, r, results)
  /\ UNCHANGED <<apiVars, serviceVars, job, ar, vr>>

PlaceSearchNext ==
  \/ Change
  \/ Clear
  \/ Select
  \/ Focus
  \/ ClickOutside
  \/ Pass
  \/ TimerFires
  \/ Geocoded

PlaceSearchSpec == Init /\ [][PlaceSearchNext]_vars

\* timers run, events are delivered and promises settle; nothing makes the
\* user press a button
FairVoiceRecorderSpec ==
  /\ VoiceRecorderSpec
  /\ WF_vars(GetUserMedia)
  /\ WF_vars(RecorderTimeout)
  /\ WF_vars(StopEvent)
  /\ WF_vars(IntervalTick)
  /\ WF_vars(ExtractAnswer)
  /\ WF_vars(MatchAnswer)
  /\ WF_vars(VrSecond)

(* ------------------------- what the claims state ----------------------- *)

\* the request is a ranking that was answered with a result
IsRanking ==
  /\ request.op \in {"find-match", "service-find-match"}
  /\ response.status = 200

\* the query embedding of a ranking
Query ==
  IF request.op = "find-match" THEN request.body[1].user_embedding[1]
  ELSE request.user_embedding

\* the top_n a ranking runs with
TopN ==
  IF request.op = "find-match"
  THEN IF request.body[1].top_n = None THEN 5 ELSE request.body[1].top_n[1]
  ELSE request.top_n

\* the collection of a ranking, in its original order, as records
\* (id, embedding); for the route the collection is the submissions table
Collection ==
  IF request.op = "find-match"
  THEN [i \in DOMAIN request.store.table |->
          [id |-> request.store.table[i].id,
           embedding |-> request.store.table[i].voice_embedding]]
  ELSE [i \in DOMAIN request.stored_embeddings |->
          [id |-> request.stored_embeddings[i].id,
           embedding |-> request.stored_embeddings[i].embedding]]

\* positions of the records the query can be compared with
ComparablePositions ==
  {i \in DOMAIN Collection :
     /\ Collection[i].embedding # None
     /\ Len(Collection[i].embedding[1]) = Len(Query)}

Position(id) == CHOOSE i \in DOMAIN Collection : Collection[i].id = id

ReturnedIds == {response.body.top_matches[i].id : i \in DOMAIN response.body.top_matches}

\* C1: route is a total, deterministic function of the language code: every
\* code, supported, unsupported or malformed, gets exactly one profile, which
\* is AsianProfile exactly for zh, cmn, yue, ja, ko, th, vi and
\* InternationalProfile for every other code; the frontend's ASIAN_LANGUAGES
\* is that same set of seven codes.
RouterPartition ==
  /\ Range(ASIAN_LANGUAGES) = {"zh", "cmn", "yue", "ja", "ko", "th", "vi"}
  /\ (request.op = "extract" /\ Decodes(request.audio)) =>
       /\ Len(backend) = 1
       /\ backend[1].profile \in {"AsianProfile", "InternationalProfile"}
       /\ (backend[1].profile = "AsianProfile")
            <=> (request.audio.language \in Range(ASIAN_LANGUAGES))
       /\ (backend[1].profile = "InternationalProfile")
            <=> (request.audio.language \notin {"zh", "cmn", "yue", "ja", "ko", "th", "vi"})

\* an unrecognized code was routed, and it went to the international profile
RouterPartitionWitness ==
  /\ request.op = "extract"
  /\ request.audio.language = "xx"
  /\ backend[1].profile = "InternationalProfile"

\* C2: for top_n >= 1, the results of a ranking are in non-increasing order of similarity,
\* results of equal similarity keep the order their records have in the
\* collection, and no record left out by the truncation is more similar to
\* the query than a returned one (with top_n = 1 the single result is the
\* closest record).
RankOrderedStable ==
  (IsRanking /\ TopN >= 1) =>
    LET top == response.body.top_matches
    IN  /\ \A i, j \in DOMAIN top :
             i < j =>
               /\ Geq(top[i].similarity, top[j].similarity)
               /\ top[i].similarity = top[j].similarity
                    => Position(top[i].id) < Position(top[j].id)
        /\ \A i \in DOMAIN top :
             \A p \in ComparablePositions :
               Collection[p].id \notin ReturnedIds
                 => Geq(top[i].similarity, cosine(Query, Collection[p].embedding[1]))

\* the route ranked three records, two of them equally similar to the query
\* and one less similar placed first in the table, and returned two
RankOrderedStableWitness ==
  /\ request.op = "find-match"
  /\ response.status = 200
  /\ TopN = 2
  /\ Cardinality(ComparablePositions) = 3
  /\ Len(response.body.top_matches) = 2
  /\ response.body.top_matches[1].similarity = response.body.top_matches[2].similarity
  /\ Position(response.body.top_matches[1].id) = 2

\* C3: for top_n >= 1, a ranking returns at most min(top_n, collection size) results; a top_n
\* larger than the collection is clamped, not rejected: every comparable
\* record is then returned; no record identifier is returned twice.
RankRespectsTopN ==
  (IsRanking /\ TopN >= 1) =>
    LET top == response.body.top_matches
    IN  /\ Len(top) <= Min(TopN, Len(Collection))
        /\ TopN >= Cardinality(ComparablePositions)
             => ReturnedIds = {Collection[p].id : p \in ComparablePositions}
        /\ \A i, j \in DOMAIN top : top[i].id = top[j].id => i = j

\* top_n was larger than the collection and every record came back
RankRespectsTopNWitness ==
  /\ request.op = "find-match"
  /\ response.status = 200
  /\ TopN > Len(Collection)
  /\ Len(Collection) = 2
  /\ Len(response.body.top_matches) = 2

\* both embeddings of a compare request were given and the service was reached
Compared ==
  /\ request.op = "compare"
  /\ request.body # None
  /\ request.body[1].embedding1 # None
  /\ request.body[1].embedding2 # None
  /\ request.net = "up"

Embedding1 == request.body[1].embedding1[1]

Embedding2 == request.body[1].embedding2[1]

\* C4: for equal-length vectors of non-zero norm the similarity lies in
\* [-1, 1], and the similarity of a vector with itself is 1.0.
SimilarityBounded ==
  /\ ( /\ Compared
        /\ Len(Embedding1) = Len(Embedding2)
        /\ Dot(Embedding1, Embedding1) # 0
        /\ Dot(Embedding2, Embedding2) # 0 )
       => /\ response.status = 200
          /\ Geq(response.body.similarity, Real(-1, 1))
          /\ Geq(Real(1, 1), response.body.similarity)
          /\ Embedding1 = Embedding2 => response.body.similarity = Real(1, 1)
  /\ IsRanking =>
       \A i \in DOMAIN response.body.top_matches :
         /\ Geq(response.body.top_matches[i].similarity, Real(-1, 1))
         /\ Geq(Real(1, 1), response.body.top_matches[i].similarity)

\* two different vectors that are not parallel were compared, and the
\* similarity is strictly inside (0, 1)
SimilarityBoundedWitness ==
  /\ Compared
  /\ Embedding1 = <<1, 1, 0>>
  /\ Embedding2 = <<5, 5, 1>>
  /\ response.status = 200
  /\ response.body.similarity = [n |-> 50, d |-> 51]

\* C5: compare is symmetric: exchanging the two vectors gives the same
\* answer, similarity and is_match included.
CompareSymmetric ==
  Compared =>
    response =
      ComparePOST(Some([embedding1 |-> request.body[1].embedding2,
                        embedding2 |-> request.body[1].embedding1]),
                  request.net).response

\* two vectors of different norm and direction were compared
CompareSymmetricWitness ==
  /\ Compared
  /\ Embedding1 = <<1, 0, 0>>
  /\ Embedding2 = <<5, 5, 1>>
  /\ response.status = 200
  /\ response.body.similarity = [n |-> 25, d |-> 51]

\* C6: compare with two vectors of different lengths fails with
\* DimensionMismatchError and carries no similarity and no is_match; it
\* succeeds only when the lengths are equal.
DimensionMismatchFails ==
  Compared =>
    /\ Len(Embedding1) # Len(Embedding2)
         => /\ response.status # 200
            /\ response.body = [error |-> "DimensionMismatchError"]
    /\ response.status = 200 => Len(Embedding1) = Len(Embedding2)

\* vectors of three and of two components were compared
DimensionMismatchFailsWitness ==
  /\ Compared
  /\ Len(Embedding1) = 3
  /\ Len(Embedding2) = 2
  /\ response.body = [error |-> "DimensionMismatchError"]

\* C7: is_match is the similarity thresholded at 0.7 unless the caller gives
\* another threshold: isVoiceMatch(similarity, threshold) is true exactly when
\* similarity >= threshold; identical vectors (similarity 1.0) match and
\* orthogonal vectors (similarity 0.0) do not match under the default.
ThresholdedMatch ==
  request.op = "isVoiceMatch" =>
    LET threshold == IF request.threshold = None THEN Real(7, 10)
                     ELSE request.threshold[1]
        nonzero == /\ Dot(request.embedding1, request.embedding1) # 0
                   /\ Dot(request.embedding2, request.embedding2) # 0
    IN  /\ response.value = Geq(request.similarity, threshold)
        /\ (nonzero /\ request.embedding1 = request.embedding2)
             => /\ request.similarity = Real(1, 1)
                /\ request.is_match
                /\ request.threshold = None => response.value
        /\ (nonzero /\ Dot(request.embedding1, request.embedding2) = 0)
             => /\ request.similarity = Real(0, 1)
                /\ ~request.is_match
                /\ request.threshold = None => ~response.value

\* a similarity that equals the caller's threshold was judged a match
ThresholdedMatchWitness ==
  /\ request.op = "isVoiceMatch"
  /\ request.threshold = Some(Real(1, 1))
  /\ request.similarity = Real(1, 1)
  /\ response.value

\* the route was given a query embedding and the storage query answered
RouteAsked ==
  /\ request.op = "find-match"
  /\ request.body # None
  /\ request.body[1].user_embedding # None
  /\ request.store.kind = "ok"

NonPositiveTopNFails ==
  /\ (RouteAsked /\ request.net = "up" /\ TopN <= 0)
       => /\ response.status # 200
          /\ response.body = [error |-> "InvalidArgumentError"]
  /\ (request.op = "service-find-match" /\ TopN <= 0)
       => /\ response.status # 200
          /\ response.body = [error |-> "InvalidArgumentError"]

\* the records of the submissions table the query can be compared with, as
\* the service would be given them had the table held no other record
GoodRecords ==
  LET good == SelectSeq(request.store.table,
                        LAMBDA row : /\ row.voice_embedding # None
                                     /\ Len(row.voice_embedding[1]) = Len(Query))
  IN  [i \in DOMAIN good |->
         [id |-> good[i].id,
          embedding |-> good[i].voice_embedding,
          metadata |-> [user_name |-> good[i].user_name,
                        location_name |-> good[i].location_name,
                        language |-> good[i].voice_language]]]

\* C10: a stored record without embedding, or with an embedding of another
\* length than the query's, never makes the ranking fail: the record is left
\* out and the other records are compared and ranked exactly as if it were
\* absent.
BadRecordsSkipped ==
  /\ (RouteAsked /\ request.net = "up" /\ TopN >= 1)
       => /\ response.status = 200
          /\ response.body.top_matches = rank(Query, GoodRecords, TopN)
          /\ \A p \in DOMAIN Collection :
               p \notin ComparablePositions => Collection[p].id \notin ReturnedIds
  /\ (request.op = "service-find-match" /\ TopN >= 1)
       => /\ response.status = 200
          /\ response.body.top_matches =
               rank(Query,
                    SelectSeq(request.stored_embeddings,
                              LAMBDA r : /\ r.embedding # None
                                         /\ Len(r.embedding[1]) = Len(Query)),
                    TopN)
          /\ \A p \in DOMAIN Collection :
               p \notin ComparablePositions => Collection[p].id \notin ReturnedIds

\* a table with a record without embedding, a record of another length and
\* one good record was ranked: the good record alone came back
BadRecordsSkippedWitness ==
  /\ request.op = "find-match"
  /\ response.status = 200
  /\ Len(Collection) = 3
  /\ Collection[1].embedding = None
  /\ Collection[2].embedding = Some(<<1, 0, 0>>)
  /\ Collection[3].embedding = Some(<<0, 1>>)
  /\ Len(response.body.top_matches) = 1
  /\ response.body.top_matches[1].id = "s3"

\* C11: every record a ranking leaves out is reported: the number of
\* identifiers the result reports as skipped plus the number of records
\* ranked before truncation is the size of the collection.
SkippedReported ==
  IsRanking =>
    LET reported == IF "skipped" \in DOMAIN response.body
                    THEN Len(response.body.skipped) ELSE 0
    IN  reported + Cardinality(ComparablePositions) = Len(Collection)

\* the metadata of the record at position p of the collection of a ranking
MetadataAt(p) ==
  IF request.op = "find-match"
  THEN [user_name |-> request.store.table[p].user_name,
        location_name |-> request.store.table[p].location_name,
        language |-> request.store.table[p].voice_language]
  ELSE request.stored_embeddings[p].metadata

\* C18: metadata is passed through unchanged: every returned match carries
\* the identifier of a record of the collection, that record's metadata, and
\* the similarity of that record's embedding to the query.
MetadataPassedThrough ==
  IsRanking =>
    \A i \in DOMAIN response.body.top_matches :
      LET m == response.body.top_matches[i]
      IN  /\ \E p \in ComparablePositions : Collection[p].id = m.id
          /\ m.metadata = MetadataAt(Position(m.id))
          /\ m.similarity = cosine(Query, Collection[Position(m.id)].embedding[1])

\* the route returned two matches in another order than the table's, each
\* with its own record's user_name
MetadataPassedThroughWitness ==
  /\ request.op = "find-match"
  /\ response.status = 200
  /\ Len(response.body.top_matches) = 2
  /\ response.body.top_matches[1].id = "s2"
  /\ response.body.top_matches[1].metadata.user_name = "bo"
  /\ response.body.top_matches[2].id = "s1"
  /\ response.body.top_matches[2].metadata.user_name = "ana"

\* C20: the service's documented verdict, is_match = (similarity > 0.7), and
\* the frontend's isVoiceMatch with its default threshold give the same
\* verdict for every similarity.
VerdictsAgree ==
  (request.op = "isVoiceMatch" /\ request.threshold = None) =>
    response.value = request.is_match

\* position of a component in the order the service ran them (0: not run)
RanAt(component) ==
  LET ran == backend[1].ran
  IN  IF \E i \in DOMAIN ran : ran[i] = component
      THEN CHOOSE i \in DOMAIN ran : ran[i] = component
      ELSE 0

\* C13: extract identifies the language before it extracts and routes on the
\* result: the embedding returned is the one the extractor of
\* route(language) produces, language being the label of the same response;
\* only that extractor is run, after the language identifier, and the
\* embedding has 192 components under either profile.  processVoiceUpload
\* hands on that embedding and that label.
ExtractRoutesByLabel ==
  /\ (request.op = "extract" /\ response.status = 200) =>
       LET body == response.body
           profile == route(body.language)
       IN  /\ body.language = request.audio.language
           /\ backend[1].profile = profile
           /\ body.embedding = Extractor(profile, request.audio.speaker)
           /\ Len(body.embedding) = 192
           /\ body.embedding_size = 192
           /\ RanAt("language identifier") > 0
           /\ RanAt(profile) > RanAt("language identifier")
           /\ \A other \in {"AsianProfile", "InternationalProfile"} \ {profile} :
                RanAt(other) = 0
  /\ (request.op = "processVoiceUpload" /\ "error" \notin DOMAIN request.result) =>
       /\ response.value.language = request.audio.language
       /\ response.value.confidence = request.audio.confidence
       /\ response.value.embedding =
            Extractor(route(response.value.language), request.audio.speaker)
       /\ Len(response.value.embedding) = 192

\* an upload in Japanese by the second speaker came back from
\* processVoiceUpload with the Asian extractor's embedding
ExtractRoutesByLabelWitness ==
  /\ request.op = "processVoiceUpload"
  /\ "threw" \notin DOMAIN response.value
  /\ response.value.language = "ja"
  /\ response.value.embedding = Extractor("AsianProfile", 2)
  /\ response.value.embedding # Extractor("InternationalProfile", 2)
  /\ backend[1].ran = <<"feature pipeline", "language identifier", "AsianProfile">>

\* an answer that is an error value and carries neither label nor embedding
IsErrorValue(r, error) ==
  /\ r.status >= 400
  /\ r.status <= 499
  /\ r.body.error = error
  /\ "language" \notin DOMAIN r.body
  /\ "embedding" \notin DOMAIN r.body

\* C19: bytes that do not decode make extract and detect_language fail with
\* DecodeError, returned as an error value (a 4xx answer, not a crash of the
\* handler), with no language label and no embedding; no model is run on
\* them.
MalformedAudioFails ==
  /\ (request.op = "extract" /\ ~Decodes(request.audio)) =>
       /\ IsErrorValue(response, "DecodeError")
       /\ backend[1].ran = <<"feature pipeline">>
  /\ (request.op = "detect-language" /\ request.audioFile # None
        /\ request.net = "up" /\ ~Decodes(request.audioFile[1])) =>
       IsErrorValue(response, "DecodeError")
  /\ (request.op = "processVoiceUpload" /\ ~Decodes(request.audio)) =>
       response.value = [threw |-> "DecodeError"]

\* the detect-language route answered 400 DecodeError for malformed bytes
MalformedAudioFailsWitness ==
  /\ request.op = "detect-language"
  /\ request.audioFile # None
  /\ request.audioFile[1].kind = "malformed"
  /\ response = ErrorResponse(400, "DecodeError")
  /\ backend = <<Call("/detect-language")>>

\* an answer that carries a language label or an embedding
Serves(r) == "language" \in DOMAIN r.body \/ "embedding" \in DOMAIN r.body

Advance(c) == Tick(c) \/ Finish(c) \/ Timeout(c)

\* the answer a request gets when it is the only one
Alone(req, ready) ==
  IF NeedsModels(req) /\ ~ready THEN NotReadyError
  ELSE IF req.hangs \/ req.duration > InferenceTimeout THEN TimeoutError
  ELSE Serve(req)

ParallelRankDeterministic ==
  (job.pc = "done") =>
    /\ job.output = rank(job.query, job.stored, job.top_n)
    /\ \A i \in DOMAIN job.completed : \A j \in DOMAIN job.completed :
         (i # j) => job.completed[i].position # job.completed[j].position

\* two records that tie on similarity completed in the reverse of their order
\* in the collection and are returned in the collection's order
ParallelRankDeterministicWitness ==
  /\ job.pc = "done"
  /\ Len(job.completed) = 2
  /\ job.completed[1].position = 2
  /\ job.completed[2].position = 1
  /\ job.completed[1].similarity = job.completed[2].similarity
  /\ job.top_n = 2
  /\ Len(job.output) = 2
  /\ job.output[1].id = job.stored[1].id
  /\ job.output[2].id = job.stored[2].id

Validated ==
  IF request.op = "compare"
  THEN /\ request.body # None
       /\ Truthy(request.body[1].embedding1)
       /\ Truthy(request.body[1].embedding2)
  ELSE IF request.op = "detect-language"
  THEN request.audioFile # None
  ELSE /\ request.body # None
       /\ Truthy(request.body[1].user_embedding)
       /\ request.store.kind = "ok"
       /\ \E i \in DOMAIN request.store.table :
            request.store.table[i].voice_embedding # None

\* the endpoint of the service a route forwards to
EndpointOf(op) ==
  IF op = "compare" THEN "/compare-voices"
  ELSE IF op = "detect-language" THEN "/detect-language"
  ELSE "/find-match"

\* C23: each voice route calls the service at most once per request, at its
\* own endpoint, and only when its validation has passed (compare: both
\* embeddings; detect-language: an audio part; find-match: user_embedding, a
\* storage query that succeeded and returned a submission); otherwise it
\* answers 400, 500 or the empty result without any call.
BackendCalledAfterValidation ==
  (request.op \in {"compare", "detect-language", "find-match"}) =>
    /\ Len(backend) <= 1
    /\ (Len(backend) = 1) <=> Validated
    /\ (Len(backend) = 1) => backend[1].endpoint = EndpointOf(request.op)
    /\ (Len(backend) = 0) =>
         \/ response.status \in {400, 500}
         \/ request.op = "find-match" /\ response = EmptyResult

\* the storage query succeeded but every row lacked its embedding: the route
\* answered the empty result and made no call
BackendCalledAfterValidationWitness ==
  /\ RouteAsked
  /\ Len(request.store.table) = 2
  /\ response = EmptyResult
  /\ backend = <<>>

\* the answer the fetch of a route resolved to (the route has made its call
\* and the fetch did not throw)
Fetched ==
  Fetch(request.net,
        IF request.op = "compare"
        THEN compare_voices(Embedding1, Embedding2)
        ELSE IF request.op = "detect-language"
        THEN detect_language(request.audioFile[1])
        ELSE find_match(Query,
                        stored_embeddings(SelectSubmissions(request.store.table)),
                        TopN))

\* the message a route puts in place of a missing error message
DefaultMessage(op) ==
  IF op = "compare" THEN "Failed to compare voices"
  ELSE IF op = "detect-language" THEN "Failed to detect language"
  ELSE "Failed to find match"

\* C24: every request to a voice route gets one well-formed response.  A
\* non-OK answer of the service is passed on with the service's status and
\* its error message, or the route's default message when it has none; a
\* thrown exception (unparseable request body, unreachable service,
\* unparseable answer) becomes 500 'Internal server error'; a success body
\* is returned only when the service answered OK (or, for find-match, as the
\* route's own empty result).
RouteAnswersOnce ==
  (request.op \in {"compare", "detect-language", "find-match"}) =>
    /\ response.status \in 200 .. 599
    /\ Ok(response) \/ DOMAIN response.body = {"error"}
    /\ (request.op # "detect-language" /\ request.body = None)
         => response = InternalServerError
    /\ (Len(backend) = 1 /\ Throws(request.net))
         => response = InternalServerError
    /\ (Len(backend) = 1 /\ ~Throws(request.net)) =>
         /\ ~Ok(Fetched) =>
              /\ response.status = Fetched.status
              /\ response.body =
                   [error |-> IF Fetched.body.error = ""
                              THEN DefaultMessage(request.op)
                              ELSE Fetched.body.error]
         /\ Ok(Fetched) => response = [status |-> 200, body |-> Fetched.body]
    /\ ("success" \in DOMAIN response.body) =>
         \/ Len(backend) = 1 /\ ~Throws(request.net) /\ Ok(Fetched)
         \/ request.op = "find-match" /\ response = EmptyResult

\* the find-match route met a 502 without error message and answered 502
\* with its default message
RouteAnswersOnceWitness ==
  /\ request.op = "find-match"
  /\ request.net = "bare"
  /\ backend = <<Call("/find-match")>>
  /\ response = ErrorResponse(502, "Failed to find match")

\* C25: a timer set by startRecording runs when its maxDuration has elapsed;
\* when it finds the recorder in state 'recording' it stops that recording
\* then and there, and when it finds the recording stopped already it does
\* nothing: no stop is called a second time and no error is raised.
AutoStopAtMaxDuration ==
  /\ \A t \in ar.timers : t.due >= ar.now
  /\ \A i \in DOMAIN ar.fired :
       LET f == ar.fired[i]
       IN  /\ f.at = f.due
           /\ (f.found = "recording") =>
                /\ f.stopped # 0
                /\ ar.recordings[f.stopped].state = "inactive"
                /\ ar.recordings[f.stopped].stoppedAt = f.due
                /\ ar.recordings[f.stopped].stoppedBy = "timer"
                /\ f.outcome = "blob"
           /\ (f.found # "recording") =>
                /\ f.stopped = 0
                /\ f.outcome = "nothing"

\* the first recording was stopped by the caller before its timer ran, which
\* then did nothing; the second ran to its maxDuration and was stopped by its
\* timer
AutoStopAtMaxDurationWitness ==
  /\ Len(ar.fired) = 2
  /\ ar.fired[1].of = 1
  /\ ar.fired[1].found = "inactive"
  /\ ar.fired[1].stopped = 0
  /\ ar.recordings[1].stoppedBy = "caller"
  /\ ar.fired[2].of = 2
  /\ ar.fired[2].found = "recording"
  /\ ar.recordings[2].stoppedBy = "timer"
  /\ ar.recordings[2].stoppedAt = ar.recordings[2].startedAt + ar.recordings[2].maxDuration

\* C27: a timer set by one call of startRecording only ever stops the
\* recording that call started: a recording stopped by a timer is stopped by
\* its own timer, hence not before its own maxDuration has elapsed.
TimerStopsOwnRecording ==
  /\ \A i \in DOMAIN ar.fired :
       (ar.fired[i].stopped # 0) => (ar.fired[i].stopped = ar.fired[i].of)
  /\ \A k \in DOMAIN ar.recordings :
       LET r == ar.recordings[k]
       IN  (r.stoppedBy = "timer") =>
             /\ r.maxDuration # 0
             /\ r.stoppedAt >= r.startedAt + r.maxDuration

\* the VoiceRecorder has stopped recording by itself
LeftRecording == ~vr.isRecording /\ vr.audioBlob # 0

\* C26: when the user does not press Stop, a VoiceRecorder that is recording
\* eventually leaves the recording state with the blob set; it never stays
\* in the recording state forever.
AutoStopLeavesRecording ==
  (vr.isRecording /\ ~vr.pressedStop) ~> (LeftRecording \/ vr.pressedStop)

\* extractEmbedding or findVoiceMatch returned an error
Failed(answer) == "error" \in DOMAIN answer \/ "null" \in DOMAIN answer

\* the call was made and returned no error
Succeeded(answer) == answer # NotCalled /\ ~Failed(answer)

\* the calls of onMatchFound made for the recording rec
CallsFor(rec) == {n \in DOMAIN vr.onMatchFound : vr.onMatchFound[n].rec = rec}

\* C28: when processRecording has finished isProcessing is false again;
\* onMatchFound is called only when extraction and matching both succeeded,
\* at most once per recording; when either failed an error message is set
\* and the list of matches is empty.
ProcessingSettles ==
  /\ (vr.tasks = {}) => ~vr.isProcessing
  /\ \A rec \in DOMAIN vr.recorders :
       /\ Cardinality(CallsFor(rec)) <= 1
       /\ Cardinality({n \in DOMAIN vr.runs : vr.runs[n].rec = rec}) <= 1
       /\ (CallsFor(rec) # {}) =>
            \E n \in DOMAIN vr.runs :
               /\ vr.runs[n].rec = rec
               /\ Succeeded(vr.runs[n].extracted)
               /\ Succeeded(vr.runs[n].matched)
  /\ \A n \in DOMAIN vr.runs :
       (Failed(vr.runs[n].extracted) \/ Failed(vr.runs[n].matched)) =>
          /\ vr.runs[n].error # ""
          /\ vr.runs[n].matches = <<>>
          /\ CallsFor(vr.runs[n].rec) = {}

\* two recordings were processed: for the first both calls succeeded and
\* onMatchFound was called once, for the second matching failed
ProcessingSettlesWitness ==
  /\ Len(vr.runs) = 2
  /\ Succeeded(vr.runs[1].extracted)
  /\ Succeeded(vr.runs[1].matched)
  /\ Cardinality(CallsFor(vr.runs[1].rec)) = 1
  /\ Succeeded(vr.runs[2].extracted)
  /\ Failed(vr.runs[2].matched)
  /\ vr.runs[2].error = "Failed to find match"
  /\ ~vr.isProcessing
  /\ vr.matches = <<>>

\* C29: a request is issued for a query only when the query has stayed
\* unchanged for 300 ms; a change cancels the pending timer, so that at most
\* one timer is pending, it is the timer of the last change, and every
\* change causes at most one request, for the query it set; a blank query
\* issues no request.
DebouncedRequests ==
  /\ \A n \in DOMAIN ps.requests :
       LET r == ps.requests[n]
       IN  /\ r.since >= Debounce
           /\ r.query = r.current
           /\ ~Blank(r.query)
           /\ \A m \in DOMAIN ps.requests : r.change = ps.requests[m].change => m = n
  /\ Cardinality(ps.timers) <= 1
  /\ \A t \in ps.timers :
       /\ t.id = ps.changes
       /\ t.query = ps.searchQuery
       /\ t.left = Debounce - ps.since
  /\ Blank(ps.searchQuery) => ps.timers = {}

\* two changes less than 300 ms apart caused one request, for the second;
\* then the query was made blank and 300 ms passed without a request
DebouncedRequestsWitness ==
  /\ ps.changes = 3
  /\ Len(ps.requests) = 1
  /\ ps.requests[1].change = 2
  /\ ps.requests[1].since = Debounce
  /\ Blank(ps.searchQuery)
  /\ ps.since = Debounce
  /\ ps.timers = {}

\* C30: a response for an earlier request never replaces the results of a
\* later one, and while the query is empty the list of results is empty and
\* the dropdown is closed, whatever request completes.
ResultsBelongToQuery ==
  /\ \A n \in DOMAIN ps.applied : ps.applied[n].request > ps.applied[n].over
  /\ (ps.searchQuery = <<>>) =>
        /\ ps.searchResults = <<>>
        /\ ~ps.isDropdownOpen

====
